---- MODULE Spec2Model ----
(***************************************************************************)
(* The raw key-value client of rawkv/rawkv.go as a state machine.          *)
(*                                                                         *)
(* Keys are natural numbers in byte-string order; 0 is the empty byte      *)
(* string (the least key; as an end key it means "unbounded").  A value is *)
(* a natural number, 0 being the empty / nil value.  A key list is a        *)
(* sequence of runs [k, m]: the key k, m times in a row, so that a list     *)
(* longer than rawBatchPairCount is a short sequence.  One behaviour is one *)
(* call of one public operation, from the call to its return, against a    *)
(* routing cache, a transport and a retry budget that answer               *)
(* nondeterministically.                                                   *)
(***************************************************************************)
EXTENDS Integers, Sequences, FiniteSets, TLC

VARIABLES
    op,      \* the public operation called and its arguments
    pc,      \* position of the calling goroutine
    ret,     \* what the operation returned
    splits,  \* region boundaries the routing cache currently knows
    store,   \* the servers' data: key -> [v: value (0 = no such key), ttl]
    ctxs,    \* the context tree: ctxs[Root] is the caller's context
    frames,  \* fan-out invocations (sendBatchReq, sendBatchPut, a BatchDeleteRange round)
    tasks,   \* the goroutines the fan-outs spawned
    w        \* locals of the calling goroutine (walkers and the single-key dispatcher)

vars == <<op, pc, ret, splits, store, ctxs, frames, tasks, w>>

----------------------------------------------------------------------------
\* Bounds of the model.

\* keys are 1..MaxKey
MaxKey == 3
\* the keys handed to a batched operation are 1..MaxBatchKey
MaxBatchKey == 2
\* most runs of a key list handed to a batched operation
MaxLen == 2
\* batchSize of BatchDeleteRange is -1..MaxBatchSize
MaxBatchSize == 2
\* most rounds of BatchDeleteRange followed
MaxRounds == 3
\* milliseconds one RegionMiss backoff sleeps
SleepMs == 20000

\* Program constants.
rawkvMaxBackoff == 20000
rawBatchPairCount == 512
rawBatchPutSize == 16 * 1024
\* a cap twice as high
MaxRawKVScanLimit_Doubled == 2 * 10240
MaxRawKVScanLimit == 10240

KeySpace == 1..MaxKey
Layouts == SUBSET (2..MaxKey)
BatchLayouts == SUBSET (2..MaxBatchKey)

\* ValueOf(k): the value stored under k when k is stored
ValueOf(k) == 10 + k

\* what the servers hold for a key that is not stored
NoValue == [v |-> 0, ttl |-> 0]

Max(S) == CHOOSE x \in S : \A y \in S : y <= x
Min(S) == CHOOSE x \in S : \A y \in S : x <= y

----------------------------------------------------------------------------
\* Errors.  An error is a kind and the task it arose in (<<>>: the caller).

Err(kind, t) == [kind |-> kind, src |-> t]
Nil == Err("nil", <<>>)

----------------------------------------------------------------------------
\* Contexts and retry budgets (package retry).

\* A context is named by where it was made: Root is the caller's, GroupCtx(f) the
\* one the fan-out f forked for its group, TaskCtx(t) the one task t forked for itself.
\* A fan-out is named by the path of the task that called it (<<>>: the public
\* operation), a task by its fan-out's path and its index in it.
Root == <<>>
GroupCtx(f) == <<0>> \o f
TaskCtx(t) == <<1>> \o t

RECURSIVE Done(_, _)
Done(cx, c) == cx[c].cancelled \/ (c # Root /\ Done(cx, cx[c].parent))

cancel(cx, c) == [cx EXCEPT ![c].cancelled = TRUE]

NewBackofferWithVars(ctx, maxSleep) == [totalSleep |-> 0, ctx |-> ctx, maxSleep |-> maxSleep]

\* the child budget of bo under the new context c
Fork(bo, c) == [totalSleep |-> bo.totalSleep, ctx |-> c, maxSleep |-> bo.maxSleep]

\* Backoff: the error kind it returns ("nil": it slept)
BackoffErr(cx, bo) ==
    IF Done(cx, bo.ctx) THEN "Cancelled"
    ELSE IF bo.totalSleep >= bo.maxSleep THEN "Exhausted"
    ELSE "nil"

Backoff(bo) == [bo EXCEPT !.totalSleep = @ + SleepMs]

----------------------------------------------------------------------------
\* The routing cache (package locate).  A region is named by its range.

ZeroRegion == <<>>

RegionStart(sp, k) == LET S == {s \in sp : s <= k} IN IF S = {} THEN 0 ELSE Max(S)
RegionEnd(sp, k) == LET S == {s \in sp : s > k} IN IF S = {} THEN 0 ELSE Min(S)

LocateKey(sp, k) ==
    [StartKey |-> RegionStart(sp, k), EndKey |-> RegionEnd(sp, k),
     Region |-> <<RegionStart(sp, k), RegionEnd(sp, k)>>]

\* LocateEndKey: the region whose range ends at or after k and starts before it
LocateEndKey(sp, k) ==
    LET lo == {s \in sp : s < k}
        hi == {s \in sp : s >= k}
        st == IF lo = {} THEN 0 ELSE Max(lo)
        en == IF hi = {} THEN 0 ELSE Min(hi)
    IN [StartKey |-> st, EndKey |-> en, Region |-> <<st, en>>]

RECURSIVE SortedSeq(_)
SortedSeq(S) == IF S = {} THEN <<>> ELSE <<Min(S)>> \o SortedSeq(S \ {Min(S)})

\* the number of keys of a key list
RECURSIVE Count(_)
Count(keys) == IF keys = <<>> THEN 0 ELSE Head(keys).m + Count(Tail(keys))

\* GroupKeysByRegion: one group per region, keys in the caller's order
GroupKeysByRegion(sp, keys) ==
    LET starts == SortedSeq({RegionStart(sp, keys[i].k) : i \in 1..Len(keys)})
    IN [g \in 1..Len(starts) |->
          [Region |-> LocateKey(sp, starts[g]).Region,
           Keys |-> SelectSeq(keys, LAMBDA r : RegionStart(sp, r.k) = starts[g])]]

----------------------------------------------------------------------------
\* The batch planner (package kvrpc).

\* the first n keys of a key list, and the rest
RECURSIVE Take(_, _)
Take(keys, n) ==
    IF n = 0 \/ keys = <<>> THEN <<>>
    ELSE IF Head(keys).m <= n THEN <<Head(keys)>> \o Take(Tail(keys), n - Head(keys).m)
    ELSE <<[Head(keys) EXCEPT !.m = n]>>

RECURSIVE Drop(_, _)
Drop(keys, n) ==
    IF n = 0 \/ keys = <<>> THEN keys
    ELSE IF Head(keys).m <= n THEN Drop(Tail(keys), n - Head(keys).m)
    ELSE <<[Head(keys) EXCEPT !.m = @ - n]>> \o Tail(keys)

\* AppendKeyBatches: the group cut into batches of at most limit keys
RECURSIVE AppendKeyBatches(_, _, _, _)
AppendKeyBatches(batches, regionID, groupKeys, limit) ==
    IF Count(groupKeys) = 0 THEN batches
    ELSE AppendKeyBatches(
             Append(batches, [RegionID |-> regionID, Keys |-> Take(groupKeys, limit)]),
             regionID, Drop(groupKeys, limit), limit)

----------------------------------------------------------------------------
\* The transport (RegionRequestSender.SendReq): how one attempt is answered.
\* A request addressed to no region of the cache is answered with a region-error.

\* a call made on a client with a mock transport that always answers region-error
MockTransport(o) == [mock |-> "region-error"] @@ o

Mocked == "mock" \in DOMAIN op

SendReq(region, bodies) ==
    IF region = ZeroRegion \/ Mocked THEN {"RegionErr"}
    ELSE {"ok", "RegionErr", "SendErr"} \cup bodies

\* the pairs a server returns for a batch-get of keys
RawBatchGetPairs(st, keys) ==
    LET found == SelectSeq(keys, LAMBDA r : st[r.k].v # 0)
    IN [i \in 1..Len(found) |-> [k |-> found[i].k, v |-> st[found[i].k].v, m |-> found[i].m]]

----------------------------------------------------------------------------
\* Fan-out: the group budget, one task per batch with its own fork, the channel.

NoRet == [status |-> "running"]
Panicked == [status |-> "panic"]

Front(p) == SubSeq(p, 1, Len(p) - 1)

NewCtx(parent) == [parent |-> parent, cancelled |-> FALSE]

NoResult == [Body |-> TRUE, Pairs |-> <<>>, Error |-> Nil]

\* the fan-out f over batches, its group budget forked from bo
FanOut(f, kind, cmdType, bo, batches) ==
    LET n == Len(batches)
        gbo == Fork(bo, GroupCtx(f))
    IN [ctxs |-> [c \in {GroupCtx(f)} \cup {TaskCtx(f \o <<j>>) : j \in 1..n} |->
                    IF c = GroupCtx(f) THEN NewCtx(bo.ctx) ELSE NewCtx(GroupCtx(f))],
        frames |-> [g \in {f} |->
                     [kind |-> kind, cmdType |-> cmdType, n |-> n, bo |-> gbo, cap |-> n,
                      ch |-> <<>>, i |-> 0, firstFailed |-> Nil,
                      firstError |-> Nil, Pairs |-> <<>>, pc |-> "collect"]],
        tasks |-> [t \in {f \o <<j>> : j \in 1..n} |->
                     [batch |-> batches[t[Len(t)]], bo |-> Fork(gbo, TaskCtx(t)),
                      pc |-> "run", res |-> NoResult, answered |-> FALSE]]]

\* sendBatchReq from its entry to the spawn of its tasks, under the layout sp
RECURSIVE KeyBatches(_, _, _)
KeyBatches(groups, g, batches) ==
    IF g > Len(groups) THEN batches
    ELSE KeyBatches(groups, g + 1,
             AppendKeyBatches(batches, groups[g].Region, groups[g].Keys, rawBatchPairCount))

sendBatchReq(sp, f, bo, keys, cmdType) ==
    FanOut(f, "sendBatchReq", cmdType, bo, KeyBatches(GroupKeysByRegion(sp, keys), 1, <<>>))

\* the task t finished with result r: it is ready to deliver it
Finish(t, r) == [tasks EXCEPT ![t].pc = "send", ![t].res = r]

Result(pairs, err) == [Body |-> TRUE, Pairs |-> pairs, Error |-> err]

\* the task t finished with the result r of a request that was answered with
\* neither a region-error nor an error (answered: a record of that, read by no code)
FinishAnswered(t, r) == [Finish(t, r) EXCEPT ![t].answered = TRUE]

\* doBatchReq: one attempt of the batch-step of task t
doBatchReq(t) ==
    LET tk == tasks[t]
        cmdType == frames[Front(t)].cmdType
    IN
    /\ pc = "wait"
    /\ tk.pc = "run"
    /\ frames[Front(t)].kind = "sendBatchReq"
    /\ \E out \in SendReq(tk.batch.RegionID, {"NoBody", "ServerErr"}) :
        \/ /\ out = "SendErr"
           /\ tasks' = Finish(t, Result(<<>>, Err("SendErr", t)))
           /\ UNCHANGED <<splits, store, ctxs, frames>>
        \/ /\ out = "RegionErr"
           /\ BackoffErr(ctxs, tk.bo) # "nil"
           /\ tasks' = Finish(t, Result(<<>>, Err(BackoffErr(ctxs, tk.bo), t)))
           /\ UNCHANGED <<splits, store, ctxs, frames>>
        \/ /\ out = "RegionErr"
           /\ BackoffErr(ctxs, tk.bo) = "nil"
           /\ \E sp \in BatchLayouts :
                /\ splits' = sp
                /\ \/ LET r == sendBatchReq(sp, t, Backoff(tk.bo), tk.batch.Keys, cmdType)
                      IN /\ ctxs' = r.ctxs @@ ctxs
                         /\ frames' = r.frames @@ frames
                         /\ tasks' = r.tasks @@ [tasks EXCEPT ![t].pc = "wait", ![t].bo = Backoff(tk.bo)]
                   \/ /\ tasks' = [Finish(t, [Body |-> FALSE, Pairs |-> <<>>, Error |-> Err("LocateErr", t)])
                                     EXCEPT ![t].bo = Backoff(tk.bo)]
                      /\ UNCHANGED <<ctxs, frames>>
           /\ UNCHANGED store
        \/ /\ out = "ok"
           /\ cmdType = "RawBatchGet"
           /\ tasks' = FinishAnswered(t, Result(RawBatchGetPairs(store, tk.batch.Keys), Nil))
           /\ UNCHANGED <<splits, store, ctxs, frames>>
        \/ /\ out = "NoBody"
           /\ tasks' = Finish(t, IF cmdType = "RawBatchGet"
                                 THEN [Body |-> FALSE, Pairs |-> <<>>, Error |-> Nil]
                                 ELSE Result(<<>>, Err("BodyMissing", t)))
           /\ UNCHANGED <<splits, store, ctxs, frames>>
        \/ /\ out = "ok"
           /\ cmdType = "RawBatchDelete"
           /\ tasks' = FinishAnswered(t, Result(<<>>, Nil))
           /\ store' = [k \in KeySpace |->
                          IF \E i \in 1..Len(tk.batch.Keys) : tk.batch.Keys[i].k = k THEN NoValue ELSE store[k]]
           /\ UNCHANGED <<splits, ctxs, frames>>
        \/ /\ out = "ServerErr"
           /\ cmdType = "RawBatchDelete"
           /\ tasks' = Finish(t, Result(<<>>, Err("ServerErr", t)))
           /\ UNCHANGED <<splits, store, ctxs, frames>>
    /\ UNCHANGED <<op, pc, ret, w>>

\* a task delivers its result on the channel and leaves, releasing its own fork
Deliver(t) ==
    LET tk == tasks[t]
        f == Front(t)
    IN
    /\ pc = "wait"
    /\ tk.pc = "send"
    /\ Len(frames[f].ch) < frames[f].cap
    /\ frames' = [frames EXCEPT ![f].ch = Append(@, tk.res),
                                ![f].firstFailed = IF @ = Nil THEN tk.res.Error ELSE @]
    /\ tasks' = [tasks EXCEPT ![t].pc = "exit", ![t].res = NoResult]
    /\ ctxs' = cancel(ctxs, tk.bo.ctx)
    /\ UNCHANGED <<op, pc, ret, splits, store, w>>

\* lines 639-641: the first error is kept
CatchFirstError(firstError, e) == IF firstError = Nil THEN e ELSE firstError

\* a collector that stops one receive short
Receives_AllButOne(fr) == fr.n - 1

\* the collector's loop bound: one receive per batch
Receives(fr) == fr.n

\* a collector that catches the error and cancels nothing
CancelGroup_None(cx, fr) == cx

\* what the collector does to the contexts on a failed outcome: cancel()
CancelGroup(cx, fr) == cancel(cx, fr.bo.ctx)

\* the receive common to the three collectors
Receive(f, pairs) ==
    LET fr == frames[f]
        r == Head(fr.ch)
    IN [frames EXCEPT ![f].ch = Tail(@), ![f].i = @ + 1,
                      ![f].firstError = IF r.Error # Nil THEN CatchFirstError(@, r.Error) ELSE @,
                      ![f].Pairs = @ \o pairs]

\* sendBatchReq: one turn of the collector's loop
sendBatchReqCollect(f) ==
    LET fr == frames[f]
        r == Head(fr.ch)
    IN
    /\ pc = "wait"
    /\ fr.kind = "sendBatchReq"
    /\ fr.pc = "collect"
    /\ fr.i < Receives(fr)
    /\ fr.ch # <<>>
    /\ \/ /\ r.Error # Nil
          /\ ctxs' = CancelGroup(ctxs, fr)
          /\ frames' = Receive(f, <<>>)
          /\ UNCHANGED <<pc, ret>>
       \/ /\ r.Error = Nil
          /\ fr.cmdType = "RawBatchGet" => r.Body
          /\ frames' = Receive(f, IF fr.cmdType = "RawBatchGet" THEN r.Pairs ELSE <<>>)
          /\ UNCHANGED <<pc, ret, ctxs>>
       \/ /\ r.Error = Nil
          /\ fr.cmdType = "RawBatchGet"
          /\ ~r.Body
          /\ pc' = "done"
          /\ ret' = Panicked
          /\ UNCHANGED <<ctxs, frames>>
    /\ UNCHANGED <<op, splits, store, tasks, w>>

\* a slip: the i-th value taken from the i-th returned pair
BatchGetValues_ByPosition(keys, pairs) ==
    [i \in 1..Len(keys) |->
        [v |-> IF i <= Len(pairs) THEN pairs[i].v ELSE 0, m |-> keys[i].m]]

\* BatchGet, lines 167-176: the values in the order of the keys
BatchGetValues(keys, pairs) ==
    [i \in 1..Len(keys) |->
        LET at == {j \in 1..Len(pairs) : pairs[j].k = keys[i].k}
        IN [v |-> IF at = {} THEN 0 ELSE pairs[Max(at)].v, m |-> keys[i].m]]

\* what the public operation returns once sendBatchReq returned (pairs, err)
BatchReqReturn(cmdType, keys, pairs, err) ==
    IF err # Nil THEN [status |-> "returned", values |-> <<>>, err |-> err]
    ELSE IF cmdType = "RawBatchGet"
         THEN [status |-> "returned", values |-> BatchGetValues(keys, pairs), err |-> Nil]
         ELSE [status |-> "returned", values |-> <<>>, err |-> Nil]

\* sendBatchReq returns: to BatchGet / BatchDelete, or to the batch-step that re-planned
sendBatchReqReturn(f) ==
    LET fr == frames[f]
    IN
    /\ pc = "wait"
    /\ fr.kind = "sendBatchReq"
    /\ fr.pc = "collect"
    /\ fr.i >= Receives(fr)
    /\ frames' = [frames EXCEPT ![f].pc = "returned"]
    /\ IF f = <<>>
       THEN /\ pc' = "done"
            /\ ret' = BatchReqReturn(fr.cmdType, op.keys, fr.Pairs, fr.firstError)
            /\ UNCHANGED tasks
       ELSE /\ tasks' = Finish(f, Result(fr.Pairs, fr.firstError))
            /\ UNCHANGED <<pc, ret>>
    /\ UNCHANGED <<op, splits, store, ctxs, w>>

\* BatchGet / BatchDelete: the call, up to the spawn of the first tasks
BatchReq(name, cmdType) ==
    /\ pc = "call"
    /\ op.name = name
    /\ \/ LET r == sendBatchReq(splits, <<>>, NewBackofferWithVars(Root, rawkvMaxBackoff), op.keys, cmdType)
          IN /\ ctxs' = r.ctxs @@ ctxs
             /\ frames' = r.frames @@ frames
             /\ tasks' = r.tasks @@ tasks
             /\ pc' = "wait"
             /\ UNCHANGED ret
       \/ /\ pc' = "done"
          /\ ret' = [status |-> "returned", values |-> <<>>, err |-> Err("LocateErr", <<>>)]
          /\ UNCHANGED <<ctxs, frames, tasks>>
    /\ UNCHANGED <<op, splits, store, w>>

BatchGet == BatchReq("BatchGet", "RawBatchGet")

BatchDelete == BatchReq("BatchDelete", "RawBatchDelete")

----------------------------------------------------------------------------
\* BatchPut.  The value v is len(v) = ByteLen(v) bytes long; a key is one byte.

\* a length that is never zero
ByteLen_NeverEmpty(v) == IF v % 2 = 1 THEN 1 ELSE rawBatchPutSize - 1

ByteLen(v) == IF v = 0 THEN 0 ELSE IF v % 2 = 1 THEN 1 ELSE rawBatchPutSize - 1
KeyLen(k) == IF k = 0 THEN 0 ELSE 1

\* lines 754-761: the maps of sendBatchPut (a later pair of a key replaces an earlier one)
LastAt(keys, k) == Max({i \in 1..Len(keys) : keys[i].k = k})
keyToValue(keys, values) ==
    [k \in {keys[i].k : i \in 1..Len(keys)} |-> values[LastAt(keys, k)]]
keyTottl(keys, ttls) ==
    [k \in {keys[i].k : i \in 1..Len(keys)} |-> IF Len(ttls) > 0 THEN ttls[LastAt(keys, k)] ELSE 0]

\* AppendBatches (package kvrpc): the group cut where the payload reaches limit
RECURSIVE AppendBatchesLoop(_, _, _, _, _, _, _)
AppendBatchesLoop(batches, cur, size, groupKeys, kv, kt, limit) ==
    IF groupKeys = <<>>
    THEN IF cur.Keys = <<>> THEN batches ELSE Append(batches, cur)
    ELSE IF size >= limit
    THEN AppendBatchesLoop(Append(batches, cur),
             [cur EXCEPT !.Keys = <<>>, !.Values = <<>>, !.TTLs = <<>>], 0, groupKeys, kv, kt, limit)
    ELSE LET key == Head(groupKeys)
         IN AppendBatchesLoop(batches,
                [cur EXCEPT !.Keys = Append(@, key), !.Values = Append(@, kv[key.k]),
                            !.TTLs = Append(@, kt[key.k])],
                size + KeyLen(key.k) + ByteLen(kv[key.k]), Tail(groupKeys), kv, kt, limit)

AppendBatches(batches, regionID, groupKeys, kv, kt, limit) ==
    AppendBatchesLoop(batches, [RegionID |-> regionID, Keys |-> <<>>, Values |-> <<>>, TTLs |-> <<>>],
                      0, groupKeys, kv, kt, limit)

RECURSIVE PutBatches(_, _, _, _, _)
PutBatches(groups, g, batches, kv, kt) ==
    IF g > Len(groups) THEN batches
    ELSE PutBatches(groups, g + 1,
             AppendBatches(batches, groups[g].Region, groups[g].Keys, kv, kt, rawBatchPutSize), kv, kt)

\* sendBatchPut from its entry to the spawn of its tasks, under the layout sp
sendBatchPut(sp, f, bo, keys, values, ttls) ==
    FanOut(f, "sendBatchPut", "RawBatchPut", bo,
           PutBatches(GroupKeysByRegion(sp, keys), 1, <<>>, keyToValue(keys, values), keyTottl(keys, ttls)))

\* the servers' data after a batch-put of the pairs of batch
RECURSIVE RawBatchPut(_, _, _, _)
RawBatchPut(st, keys, values, ttls) ==
    IF keys = <<>> THEN st
    ELSE RawBatchPut([st EXCEPT ![Head(keys).k] = [v |-> Head(values), ttl |-> Head(ttls)]],
                     Tail(keys), Tail(values), Tail(ttls))

\* doBatchPut: one attempt of the batch-step of task t
doBatchPut(t) ==
    LET tk == tasks[t]
    IN
    /\ pc = "wait"
    /\ tk.pc = "run"
    /\ frames[Front(t)].kind = "sendBatchPut"
    /\ \E out \in SendReq(tk.batch.RegionID, {"NoBody", "ServerErr"}) :
        \/ /\ out = "SendErr"
           /\ tasks' = Finish(t, Result(<<>>, Err("SendErr", t)))
           /\ UNCHANGED <<splits, store, ctxs, frames>>
        \/ /\ out = "RegionErr"
           /\ BackoffErr(ctxs, tk.bo) # "nil"
           /\ tasks' = Finish(t, Result(<<>>, Err(BackoffErr(ctxs, tk.bo), t)))
           /\ UNCHANGED <<splits, store, ctxs, frames>>
        \/ /\ out = "RegionErr"
           /\ BackoffErr(ctxs, tk.bo) = "nil"
           /\ \E sp \in BatchLayouts :
                /\ splits' = sp
                /\ \/ LET r == sendBatchPut(sp, t, Backoff(tk.bo), tk.batch.Keys, tk.batch.Values, tk.batch.TTLs)
                      IN /\ ctxs' = r.ctxs @@ ctxs
                         /\ frames' = r.frames @@ frames
                         /\ tasks' = r.tasks @@ [tasks EXCEPT ![t].pc = "wait", ![t].bo = Backoff(tk.bo)]
                   \/ /\ tasks' = [Finish(t, Result(<<>>, Err("LocateErr", t))) EXCEPT ![t].bo = Backoff(tk.bo)]
                      /\ UNCHANGED <<ctxs, frames>>
           /\ UNCHANGED store
        \/ /\ out = "NoBody"
           /\ tasks' = Finish(t, Result(<<>>, Err("BodyMissing", t)))
           /\ UNCHANGED <<splits, store, ctxs, frames>>
        \/ /\ out = "ServerErr"
           /\ tasks' = Finish(t, Result(<<>>, Err("ServerErr", t)))
           /\ UNCHANGED <<splits, store, ctxs, frames>>
        \/ /\ out = "ok"
           /\ tasks' = FinishAnswered(t, Result(<<>>, Nil))
           /\ store' = RawBatchPut(store, tk.batch.Keys, tk.batch.Values, tk.batch.TTLs)
           /\ UNCHANGED <<splits, ctxs, frames>>
    /\ UNCHANGED <<op, pc, ret, w>>

\* sendBatchPut: one turn of the collector's loop
sendBatchPutCollect(f) ==
    LET fr == frames[f]
        r == Head(fr.ch)
    IN
    /\ pc = "wait"
    /\ fr.kind = "sendBatchPut"
    /\ fr.pc = "collect"
    /\ fr.i < Receives(fr)
    /\ fr.ch # <<>>
    /\ frames' = Receive(f, <<>>)
    /\ ctxs' = IF r.Error # Nil THEN CancelGroup(ctxs, fr) ELSE ctxs
    /\ UNCHANGED <<op, pc, ret, splits, store, tasks, w>>

\* sendBatchPut returns: to BatchPut, or to the batch-step that re-planned
sendBatchPutReturn(f) ==
    LET fr == frames[f]
    IN
    /\ pc = "wait"
    /\ fr.kind = "sendBatchPut"
    /\ fr.pc = "collect"
    /\ fr.i >= Receives(fr)
    /\ frames' = [frames EXCEPT ![f].pc = "returned"]
    /\ IF f = <<>>
       THEN /\ pc' = "done"
            /\ ret' = [status |-> "returned", err |-> fr.firstError]
            /\ UNCHANGED tasks
       ELSE /\ tasks' = Finish(f, Result(<<>>, fr.firstError))
            /\ UNCHANGED <<pc, ret>>
    /\ UNCHANGED <<op, splits, store, ctxs, w>>

\* BatchPut: the checks of the arguments and the call of sendBatchPut
BatchPut ==
    /\ pc = "call"
    /\ op.name = "BatchPut"
    /\ \/ /\ Len(op.keys) # Len(op.values)
          /\ pc' = "done"
          /\ ret' = [status |-> "returned", err |-> Err("Arg", <<>>)]
          /\ UNCHANGED <<ctxs, frames, tasks>>
       \/ /\ Len(op.keys) = Len(op.values)
          /\ Len(op.ttls) > 0 /\ Len(op.keys) # Len(op.ttls)
          /\ pc' = "done"
          /\ ret' = [status |-> "returned", err |-> Err("Arg", <<>>)]
          /\ UNCHANGED <<ctxs, frames, tasks>>
       \/ /\ Len(op.keys) = Len(op.values)
          /\ ~(Len(op.ttls) > 0 /\ Len(op.keys) # Len(op.ttls))
          /\ \E i \in 1..Len(op.values) : ByteLen(op.values[i]) = 0
          /\ pc' = "done"
          /\ ret' = [status |-> "returned", err |-> Err("Arg", <<>>)]
          /\ UNCHANGED <<ctxs, frames, tasks>>
       \/ /\ Len(op.keys) = Len(op.values)
          /\ ~(Len(op.ttls) > 0 /\ Len(op.keys) # Len(op.ttls))
          /\ \A i \in 1..Len(op.values) : ByteLen(op.values[i]) # 0
          /\ \/ LET r == sendBatchPut(splits, <<>>, NewBackofferWithVars(Root, rawkvMaxBackoff),
                                      op.keys, op.values, op.ttls)
                IN /\ ctxs' = r.ctxs @@ ctxs
                   /\ frames' = r.frames @@ frames
                   /\ tasks' = r.tasks @@ tasks
                   /\ pc' = "wait"
                   /\ UNCHANGED ret
             \/ /\ pc' = "done"
                /\ ret' = [status |-> "returned", err |-> Err("LocateErr", <<>>)]
                /\ UNCHANGED <<ctxs, frames, tasks>>
    /\ UNCHANGED <<op, splits, store, w>>

----------------------------------------------------------------------------
\* The servers: how a request that reached its region is answered.

\* client.MaxWriteExecutionTime, in milliseconds
MaxWriteExecutionTime == 20000

NewRequest(cmd) ==
    [cmd |-> cmd, Key |-> 0, Value |-> 0, Ttl |-> 0, ForCas |-> FALSE,
     StartKey |-> 0, EndKey |-> 0, Limit |-> 0, Reverse |-> FALSE,
     PreviousNotExist |-> FALSE, PreviousValue |-> 0, MaxExecutionDurationMs |-> 0]

Response ==
    [Body |-> TRUE, Error |-> "", Value |-> 0, NotFound |-> FALSE, Ttl |-> 0, Kvs |-> <<>>,
     Succeed |-> FALSE, PreviousNotExist |-> FALSE, PreviousValue |-> 0]

InRegion(k, region) == k >= region[1] /\ (region[2] = 0 \/ k < region[2])

RECURSIVE Reversed(_)
Reversed(q) == IF q = <<>> THEN <<>> ELSE Append(Reversed(Tail(q)), Head(q))

\* the pairs a region returns for a scan: its own, in scan order, at most Limit
RawScan(st, req, region) ==
    LET hit == {k \in KeySpace :
                   /\ st[k].v # 0
                   /\ InRegion(k, region)
                   /\ IF req.Reverse
                      THEN k < req.StartKey /\ k >= req.EndKey
                      ELSE k >= req.StartKey /\ (req.EndKey = 0 \/ k < req.EndKey)}
        inOrder == IF req.Reverse THEN Reversed(SortedSeq(hit)) ELSE SortedSeq(hit)
        n == IF Len(inOrder) < req.Limit THEN Len(inOrder) ELSE req.Limit
    IN [i \in 1..n |-> [Key |-> inOrder[i], Value |-> st[inOrder[i]].v]]

\* the answer to req (out: "ok", "NoBody" or "ServerErr") and the data after it
Serve(req, region, st, out) ==
    IF out = "NoBody" THEN [resp |-> [Response EXCEPT !.Body = FALSE], store |-> st]
    ELSE IF out = "ServerErr" THEN [resp |-> [Response EXCEPT !.Error = "error"], store |-> st]
    ELSE IF req.cmd = "RawGet"
    THEN [resp |-> [Response EXCEPT !.Value = st[req.Key].v, !.NotFound = (st[req.Key].v = 0)],
          store |-> st]
    ELSE IF req.cmd = "RawPut"
    THEN [resp |-> Response, store |-> [st EXCEPT ![req.Key] = [v |-> req.Value, ttl |-> req.Ttl]]]
    ELSE IF req.cmd = "RawGetKeyTTL"
    THEN [resp |-> [Response EXCEPT !.NotFound = (st[req.Key].v = 0), !.Ttl = st[req.Key].ttl],
          store |-> st]
    ELSE IF req.cmd = "RawDelete"
    THEN [resp |-> Response, store |-> [st EXCEPT ![req.Key] = NoValue]]
    ELSE IF req.cmd = "RawCompareAndSwap"
    THEN LET cur == st[req.Key].v
             swap == IF req.PreviousNotExist THEN cur = 0 ELSE cur # 0 /\ cur = req.PreviousValue
         IN [resp |-> [Response EXCEPT !.Succeed = swap, !.PreviousNotExist = (cur = 0),
                                       !.PreviousValue = cur],
             store |-> IF swap THEN [st EXCEPT ![req.Key] = [v |-> req.Value, ttl |-> 0]] ELSE st]
    ELSE IF req.cmd = "RawScan"
    THEN [resp |-> [Response EXCEPT !.Kvs = RawScan(st, req, region)], store |-> st]
    ELSE IF req.cmd = "RawDeleteRange"
    THEN [resp |-> Response,
          store |-> [k \in KeySpace |->
                        IF /\ InRegion(k, region)
                           /\ k >= req.StartKey
                           /\ (req.EndKey = 0 \/ k < req.EndKey)
                        THEN NoValue ELSE st[k]]]
    ELSE [resp |-> Response, store |-> st]

----------------------------------------------------------------------------
\* The single-key dispatcher.

\* the locals of the calling goroutine
W0 ==
    [key |-> 0, req |-> NewRequest(""), reverse |-> FALSE,
     bo |-> NewBackofferWithVars(Root, rawkvMaxBackoff),
     answers |-> <<>>, locates |-> 0,
     out |-> [resp |-> Response, loc |-> LocateKey({}, 0), actualEndKey |-> 0, err |-> Nil],
     startKey |-> 0, keys |-> <<>>, values |-> <<>>, hops |-> <<>>, slept |-> 0,
     keyLocations |-> <<>>, err |-> Nil, round |-> 0, located |-> <<>>, sent |-> {}]

\* the call sendReq(ctx, key, req, reverse): a fresh budget
CallSendReq(wv, key, req, reverse) ==
    [wv EXCEPT !.key = key, !.req = req, !.reverse = reverse,
               !.bo = NewBackofferWithVars(Root, rawkvMaxBackoff),
               !.answers = <<>>, !.locates = 0]

\* what sendReq would do if it retried a region-error without charging the budget
RetryAfterRegionError_NoCharge(wv) == wv

\* what sendReq does with a region-error answer after a backoff that slept: continue
RetryAfterRegionError(wv) == [wv EXCEPT !.bo = Backoff(@), !.slept = @ + SleepMs]

\* the bodies the transport may answer a command with besides a full one
Bodies(cmd) == IF cmd = "RawScan" THEN {"NoBody"} ELSE {"NoBody", "ServerErr"}

\* sendReq: one turn of its loop
sendReq ==
    LET loc == IF w.reverse THEN LocateEndKey(splits, w.key) ELSE LocateKey(splits, w.key)
        looked == [w EXCEPT !.locates = @ + 1]
    IN
    /\ pc = "sendReq"
    /\ \/ /\ w' = [looked EXCEPT !.out.err = Err("LocateErr", <<>>)]
          /\ pc' = "resume"
          /\ UNCHANGED <<splits, store>>
       \/ \E out \in SendReq(loc.Region, Bodies(w.req.cmd)) :
          LET sent == [looked EXCEPT !.answers = Append(@, out)]
          IN
          \/ /\ out = "SendErr"
             /\ w' = [sent EXCEPT !.out.err = Err("SendErr", <<>>)]
             /\ pc' = "resume"
             /\ UNCHANGED <<splits, store>>
          \/ /\ out = "RegionErr"
             /\ BackoffErr(ctxs, w.bo) # "nil"
             /\ w' = [sent EXCEPT !.out.err = Err(BackoffErr(ctxs, w.bo), <<>>)]
             /\ pc' = "resume"
             /\ UNCHANGED <<splits, store>>
          \/ /\ out = "RegionErr"
             /\ BackoffErr(ctxs, w.bo) = "nil"
             /\ w' = RetryAfterRegionError(sent)
             /\ splits' \in Layouts
             /\ UNCHANGED <<pc, store>>
          \/ /\ out \in {"ok", "NoBody", "ServerErr"}
             /\ w' = [sent EXCEPT !.out = [resp |-> Serve(w.req, loc.Region, store, out).resp,
                                          loc |-> loc, actualEndKey |-> 0, err |-> Nil]]
             /\ store' = Serve(w.req, loc.Region, store, out).store
             /\ pc' = "resume"
             /\ UNCHANGED splits
    /\ UNCHANGED <<op, ret, ctxs, frames, tasks>>

Returned(fields) == [status |-> "returned"] @@ fields

\* checks that take a missing key for a failure
RespErr_NotFoundIsError(out) ==
    IF out.err # Nil THEN out.err
    ELSE IF ~out.resp.Body THEN Err("BodyMissing", <<>>)
    ELSE IF out.resp.Error # "" \/ out.resp.NotFound THEN Err("ServerErr", <<>>)
    ELSE Nil

\* the checks every operation makes of what sendReq returned; "nil": none failed
RespErr(out) ==
    IF out.err # Nil THEN out.err
    ELSE IF ~out.resp.Body THEN Err("BodyMissing", <<>>)
    ELSE IF out.resp.Error # "" THEN Err("ServerErr", <<>>)
    ELSE Nil

\* Get
Get ==
    /\ op.name = "Get"
    /\ \/ /\ pc = "call"
          /\ w' = CallSendReq(w, op.key, [NewRequest("RawGet") EXCEPT !.Key = op.key], FALSE)
          /\ pc' = "sendReq"
          /\ UNCHANGED ret
       \/ /\ pc = "resume"
          /\ ret' = IF RespErr(w.out) # Nil THEN Returned([value |-> 0, err |-> RespErr(w.out)])
                    ELSE Returned([value |-> w.out.resp.Value, err |-> Nil])
          /\ pc' = "done"
          /\ UNCHANGED w
    /\ UNCHANGED <<op, splits, store, ctxs, frames, tasks>>

\* PutWithTTL, and Put: PutWithTTL with ttl 0
PutWithTTL ==
    LET ttl == IF op.name = "Put" THEN 0 ELSE op.ttl
    IN
    /\ op.name \in {"Put", "PutWithTTL"}
    /\ \/ /\ pc = "call"
          /\ ByteLen(op.value) = 0
          /\ ret' = Returned([err |-> Err("Arg", <<>>)])
          /\ pc' = "done"
          /\ UNCHANGED w
       \/ /\ pc = "call"
          /\ ByteLen(op.value) # 0
          /\ w' = CallSendReq(w, op.key,
                     [NewRequest("RawPut") EXCEPT !.Key = op.key, !.Value = op.value,
                                                  !.Ttl = ttl, !.ForCas = op.atomic], FALSE)
          /\ pc' = "sendReq"
          /\ UNCHANGED ret
       \/ /\ pc = "resume"
          /\ ret' = Returned([err |-> RespErr(w.out)])
          /\ pc' = "done"
          /\ UNCHANGED w
    /\ UNCHANGED <<op, splits, store, ctxs, frames, tasks>>

\* GetKeyTTL
GetKeyTTL ==
    /\ op.name = "GetKeyTTL"
    /\ \/ /\ pc = "call"
          /\ w' = CallSendReq(w, op.key, [NewRequest("RawGetKeyTTL") EXCEPT !.Key = op.key], FALSE)
          /\ pc' = "sendReq"
          /\ UNCHANGED ret
       \/ /\ pc = "resume"
          /\ ret' = IF RespErr(w.out) # Nil
                    THEN Returned([found |-> FALSE, ttl |-> 0, err |-> RespErr(w.out)])
                    ELSE IF w.out.resp.NotFound
                    THEN Returned([found |-> FALSE, ttl |-> 0, err |-> Nil])
                    ELSE Returned([found |-> TRUE, ttl |-> w.out.resp.Ttl, err |-> Nil])
          /\ pc' = "done"
          /\ UNCHANGED w
    /\ UNCHANGED <<op, splits, store, ctxs, frames, tasks>>

\* Delete
Delete ==
    /\ op.name = "Delete"
    /\ \/ /\ pc = "call"
          /\ w' = CallSendReq(w, op.key,
                     [NewRequest("RawDelete") EXCEPT !.Key = op.key, !.ForCas = op.atomic,
                          !.MaxExecutionDurationMs = MaxWriteExecutionTime], FALSE)
          /\ pc' = "sendReq"
          /\ UNCHANGED ret
       \/ /\ pc = "resume"
          /\ ret' = Returned([err |-> RespErr(w.out)])
          /\ pc' = "done"
          /\ UNCHANGED w
    /\ UNCHANGED <<op, splits, store, ctxs, frames, tasks>>

\* a previousValue of nil
Absent == -1

\* a request that never expects non-existence
CASRequest_NeverNotExist(key, previousValue, newValue) ==
    [NewRequest("RawCompareAndSwap") EXCEPT
         !.Key = key, !.Value = newValue,
         !.PreviousValue = IF previousValue = Absent THEN 0 ELSE previousValue,
         !.MaxExecutionDurationMs = MaxWriteExecutionTime]

\* lines 541-551: the request of CompareAndSwap
CASRequest(key, previousValue, newValue) ==
    [NewRequest("RawCompareAndSwap") EXCEPT
         !.Key = key, !.Value = newValue,
         !.PreviousNotExist = (previousValue = Absent),
         !.PreviousValue = IF previousValue = Absent THEN 0 ELSE previousValue,
         !.MaxExecutionDurationMs = MaxWriteExecutionTime]

\* CompareAndSwap
CompareAndSwap ==
    /\ op.name = "CompareAndSwap"
    /\ \/ /\ pc = "call"
          /\ ~op.atomic \/ ByteLen(op.value) = 0
          /\ ret' = Returned([prev |-> Absent, succeed |-> FALSE, err |-> Err("Arg", <<>>)])
          /\ pc' = "done"
          /\ UNCHANGED w
       \/ /\ pc = "call"
          /\ op.atomic /\ ByteLen(op.value) # 0
          /\ w' = CallSendReq(w, op.key, CASRequest(op.key, op.prev, op.value), FALSE)
          /\ pc' = "sendReq"
          /\ UNCHANGED ret
       \/ /\ pc = "resume"
          /\ ret' = IF RespErr(w.out) # Nil
                    THEN Returned([prev |-> Absent, succeed |-> FALSE, err |-> RespErr(w.out)])
                    ELSE IF w.out.resp.PreviousNotExist
                    THEN Returned([prev |-> Absent, succeed |-> w.out.resp.Succeed, err |-> Nil])
                    ELSE Returned([prev |-> w.out.resp.PreviousValue,
                                   succeed |-> w.out.resp.Succeed, err |-> Nil])
          /\ pc' = "done"
          /\ UNCHANGED w
    /\ UNCHANGED <<op, splits, store, ctxs, frames, tasks>>

----------------------------------------------------------------------------
\* The scanners.

\* a scan hop that asks every region for the whole limit
ScanHop_WholeLimit(wv, reverse) ==
    CallSendReq(wv, wv.startKey,
        [NewRequest("RawScan") EXCEPT !.StartKey = wv.startKey, !.EndKey = op.endKey,
                                      !.Limit = op.limit, !.Reverse = reverse], reverse)

\* the call of sendReq one scan hop makes; the loop condition keeps
\* limit - len(keys) in 1..MaxRawKVScanLimit, where uint32() preserves the value
ScanHop(wv, reverse) ==
    CallSendReq(wv, wv.startKey,
        [NewRequest("RawScan") EXCEPT !.StartKey = wv.startKey, !.EndKey = op.endKey,
                                      !.Limit = op.limit - Len(wv.keys),
                                      !.Reverse = reverse], reverse)

\* the loop conditions
\* a loop condition that lets a scan start at its end key
ScanContinues_Inclusive(wv) ==
    Len(wv.keys) < op.limit /\ (op.endKey = 0 \/ wv.startKey <= op.endKey)

ScanContinues(wv) ==
    Len(wv.keys) < op.limit /\ (op.endKey = 0 \/ wv.startKey < op.endKey)

ReverseScanContinues(wv) ==
    Len(wv.keys) < op.limit /\ wv.startKey > op.endKey

Continues(wv, reverse) ==
    IF reverse THEN ReverseScanContinues(wv) ELSE ScanContinues(wv)

\* a reverse walk that moves to the end of the region scanned
NextStartKey_AlwaysEnd(loc, reverse) == loc.EndKey

\* where the next hop starts: the end of the region scanned, or its start
NextStartKey(loc, reverse) == IF reverse THEN loc.StartKey ELSE loc.EndKey

\* the locals after the pairs of a hop were appended and startKey moved to next
Appended(wv, next) ==
    LET kvs == wv.out.resp.Kvs
    IN [wv EXCEPT !.keys = @ \o [i \in 1..Len(kvs) |-> kvs[i].Key],
                  !.values = @ \o [i \in 1..Len(kvs) |-> kvs[i].Value],
                  !.startKey = next,
                  !.hops = Append(@, [req |-> wv.req, region |-> wv.out.loc.Region,
                                      before |-> Len(wv.keys), got |-> Len(kvs)])]

ScanReturn(wv) == Returned([keys |-> wv.keys, values |-> wv.values, err |-> Nil])

ScanFail(e) == Returned([keys |-> <<>>, values |-> <<>>, err |-> e])

\* Scan and ReverseScan: the limit check, the loop head and the loop body
Scanner(name, reverse) ==
    /\ op.name = name
    /\ \/ /\ pc = "call"
          /\ op.limit > MaxRawKVScanLimit
          /\ ret' = ScanFail(Err("MaxScanLimitExceeded", <<>>))
          /\ pc' = "done"
          /\ UNCHANGED w
       \/ /\ pc = "call"
          /\ op.limit <= MaxRawKVScanLimit
          /\ LET w0 == [w EXCEPT !.startKey = op.startKey]
             IN IF Continues(w0, reverse)
                THEN w' = ScanHop(w0, reverse) /\ pc' = "sendReq" /\ UNCHANGED ret
                ELSE w' = w0 /\ pc' = "done" /\ ret' = ScanReturn(w0)
       \/ /\ pc = "resume"
          /\ w.out.err # Nil \/ ~w.out.resp.Body
          /\ ret' = ScanFail(IF w.out.err # Nil THEN w.out.err ELSE Err("BodyMissing", <<>>))
          /\ pc' = "done"
          /\ UNCHANGED w
       \/ /\ pc = "resume"
          /\ w.out.err = Nil /\ w.out.resp.Body
          /\ LET w1 == Appended(w, NextStartKey(w.out.loc, reverse))
             IN IF w1.startKey # 0 /\ Continues(w1, reverse)
                THEN w' = ScanHop(w1, reverse) /\ pc' = "sendReq" /\ UNCHANGED ret
                ELSE w' = w1 /\ pc' = "done" /\ ret' = ScanReturn(w1)
    /\ UNCHANGED <<op, splits, store, ctxs, frames, tasks>>

Scan == Scanner("Scan", FALSE)

ReverseScan == Scanner("ReverseScan", TRUE)

----------------------------------------------------------------------------
\* The sequential range-delete walker.

\* a request that always runs to the end of the located region
ActualEndKey_RegionEnd(loc, endKey) == loc.EndKey

\* actualEndKey of sendDeleteRangeReq
ActualEndKey(loc, endKey) ==
    IF loc.EndKey # 0 /\ loc.EndKey < endKey THEN loc.EndKey ELSE endKey

\* sendDeleteRangeReq: one turn of its loop
sendDeleteRangeReq ==
    LET loc == LocateKey(splits, w.key)
        looked == [w EXCEPT !.locates = @ + 1]
        actualEndKey == ActualEndKey(loc, op.endKey)
        req == [NewRequest("RawDeleteRange") EXCEPT
                    !.StartKey = w.key, !.EndKey = actualEndKey,
                    !.MaxExecutionDurationMs = MaxWriteExecutionTime]
    IN
    /\ pc = "sendDeleteRangeReq"
    /\ \/ /\ w' = [looked EXCEPT !.out.err = Err("LocateErr", <<>>)]
          /\ pc' = "resume"
          /\ UNCHANGED <<splits, store>>
       \/ \E out \in SendReq(loc.Region, {"NoBody", "ServerErr"}) :
          LET sent == [looked EXCEPT !.answers = Append(@, out), !.req = req]
          IN
          \/ /\ out = "SendErr"
             /\ w' = [sent EXCEPT !.out.err = Err("SendErr", <<>>)]
             /\ pc' = "resume"
             /\ UNCHANGED <<splits, store>>
          \/ /\ out = "RegionErr"
             /\ BackoffErr(ctxs, w.bo) # "nil"
             /\ w' = [sent EXCEPT !.out.err = Err(BackoffErr(ctxs, w.bo), <<>>)]
             /\ pc' = "resume"
             /\ UNCHANGED <<splits, store>>
          \/ /\ out = "RegionErr"
             /\ BackoffErr(ctxs, w.bo) = "nil"
             /\ w' = RetryAfterRegionError(sent)
             /\ splits' \in Layouts
             /\ UNCHANGED <<pc, store>>
          \/ /\ out \in {"ok", "NoBody", "ServerErr"}
             /\ w' = [sent EXCEPT
                        !.out = [resp |-> Serve(req, loc.Region, store, out).resp, loc |-> loc,
                                 actualEndKey |-> actualEndKey, err |-> Nil],
                        !.hops = IF out = "ok"
                                 THEN Append(@, [req |-> req, region |-> loc.Region,
                                                 before |-> 0, got |-> 0])
                                 ELSE @]
             /\ store' = Serve(req, loc.Region, store, out).store
             /\ pc' = "resume"
             /\ UNCHANGED splits
    /\ UNCHANGED <<op, ret, ctxs, frames, tasks>>

\* DeleteRange: the loop head and the loop body
DeleteRange ==
    /\ op.name = "DeleteRange"
    /\ \/ /\ pc = "call"
          /\ IF op.startKey # op.endKey
             THEN /\ w' = CallSendReq([w EXCEPT !.startKey = op.startKey], op.startKey,
                                      NewRequest("RawDeleteRange"), FALSE)
                  /\ pc' = "sendDeleteRangeReq"
                  /\ UNCHANGED ret
             ELSE /\ w' = [w EXCEPT !.startKey = op.startKey]
                  /\ pc' = "done"
                  /\ ret' = Returned([err |-> Nil])
       \/ /\ pc = "resume"
          /\ RespErr(w.out) # Nil
          /\ ret' = Returned([err |-> RespErr(w.out)])
          /\ pc' = "done"
          /\ UNCHANGED w
       \/ /\ pc = "resume"
          /\ RespErr(w.out) = Nil
          /\ LET w1 == [w EXCEPT !.startKey = w.out.actualEndKey]
             IN IF w1.startKey # op.endKey
                THEN /\ w' = CallSendReq(w1, w1.startKey, NewRequest("RawDeleteRange"), FALSE)
                     /\ pc' = "sendDeleteRangeReq"
                     /\ UNCHANGED ret
                ELSE /\ w' = w1
                     /\ pc' = "done"
                     /\ ret' = Returned([err |-> Nil])
    /\ UNCHANGED <<op, splits, store, ctxs, frames, tasks>>

----------------------------------------------------------------------------
\* The batched range-delete walker.

\* locate.KeyLocation{}: what make([]locate.KeyLocation, batchSize) is filled with
ZeroLocation == [StartKey |-> 0, EndKey |-> 0, Region |-> ZeroRegion]

\* line 329: the slice the locations are appended to
MakeKeyLocations(batchSize) == [i \in 1..batchSize |-> ZeroLocation]

\* lines 336-342: the location appended for the located region loc, built after
\* tmpStartKey was moved to next
NewKeyLocation(tmpStartKey, next, loc) ==
    [StartKey |-> next, EndKey |-> next, Region |-> loc.Region]

\* lines 331-345: the lookups of one round, from the i-th on
RECURSIVE LocateLoop(_, _, _, _, _, _, _)
LocateLoop(sp, tmpStartKey, tmpEndKey, batchSize, i, keyLocations, located) ==
    IF i >= batchSize
    THEN [tmpStartKey |-> tmpStartKey, keyLocations |-> keyLocations, located |-> located]
    ELSE LET loc == LocateKey(sp, tmpStartKey)
         IN IF loc.EndKey # 0 /\ loc.EndKey < tmpEndKey
            THEN LocateLoop(sp, loc.EndKey, tmpEndKey, batchSize, i + 1,
                            Append(keyLocations, NewKeyLocation(tmpStartKey, loc.EndKey, loc)),
                            Append(located, loc))
            ELSE [tmpStartKey |-> tmpEndKey,
                  keyLocations |-> Append(keyLocations, NewKeyLocation(tmpStartKey, tmpEndKey, loc)),
                  located |-> Append(located, loc)]

\* line 372: what BatchDeleteRange returns after the walk, err being the captured error
BatchDeleteRangeResult(err) == Nil

\* BatchDeleteRange at the head of its outer loop, with locals wv and fan-outs frs
BatchDeleteRangeLoop(wv, frs) ==
    \/ /\ wv.startKey = op.endKey
       /\ pc' = "done"
       /\ ret' = Returned([err |-> BatchDeleteRangeResult(wv.err)])
       /\ w' = wv
       /\ frames' = frs
       /\ UNCHANGED <<ctxs, tasks>>
    \/ /\ wv.startKey # op.endKey
       /\ op.batchSize >= 1
       /\ pc' = "done"
       /\ ret' = Returned([err |-> Err("LocateErr", <<>>)])
       /\ w' = wv
       /\ frames' = frs
       /\ UNCHANGED <<ctxs, tasks>>
    \/ /\ wv.startKey # op.endKey
       /\ wv.round < MaxRounds
       /\ LET l == LocateLoop(splits, wv.startKey, op.endKey, op.batchSize, 0,
                              wv.keyLocations, <<>>)
              r == FanOut(<<wv.round + 1>>, "BatchDeleteRange", "RawDeleteRange",
                          NewBackofferWithVars(Root, rawkvMaxBackoff), l.keyLocations)
          IN /\ w' = [wv EXCEPT !.startKey = l.tmpStartKey, !.keyLocations = l.keyLocations,
                                !.round = @ + 1, !.located = Append(@, l.located)]
             /\ ctxs' = r.ctxs @@ ctxs
             /\ frames' = r.frames @@ frs
             /\ tasks' = r.tasks @@ tasks
             /\ pc' = "wait"
             /\ UNCHANGED ret

\* BatchDeleteRange: the call, up to the spawn of the first round
BatchDeleteRange ==
    /\ pc = "call"
    /\ op.name = "BatchDeleteRange"
    /\ IF op.batchSize < 0
       THEN /\ pc' = "done"
            /\ ret' = Panicked
            /\ UNCHANGED <<w, ctxs, frames, tasks>>
       ELSE BatchDeleteRangeLoop([w EXCEPT !.startKey = op.startKey,
                                           !.keyLocations = MakeKeyLocations(op.batchSize)],
                                 frames)
    /\ UNCHANGED <<op, splits, store>>

\* doBatchDeleteRangeReq: one attempt of task t
doBatchDeleteRangeReq(t) ==
    LET tk == tasks[t]
        req == [NewRequest("RawDeleteRange") EXCEPT
                    !.StartKey = tk.batch.StartKey, !.EndKey = tk.batch.EndKey,
                    !.MaxExecutionDurationMs = MaxWriteExecutionTime]
    IN
    /\ pc = "wait"
    /\ tk.pc = "run"
    /\ frames[Front(t)].kind = "BatchDeleteRange"
    /\ \E out \in SendReq(tk.batch.Region, {"NoBody", "ServerErr"}) :
        \/ /\ out = "SendErr"
           /\ tasks' = Finish(t, Result(<<>>, Err("SendErr", t)))
           /\ UNCHANGED <<splits, store, w>>
        \/ /\ out = "RegionErr"
           /\ BackoffErr(ctxs, tk.bo) # "nil"
           /\ tasks' = Finish(t, Result(<<>>, Err(BackoffErr(ctxs, tk.bo), t)))
           /\ UNCHANGED <<splits, store, w>>
        \/ /\ out = "RegionErr"
           /\ BackoffErr(ctxs, tk.bo) = "nil"
           /\ tasks' = [tasks EXCEPT ![t].bo = Backoff(tk.bo)]
           /\ IF tk.batch.Region = ZeroRegion THEN UNCHANGED splits ELSE splits' \in BatchLayouts
           /\ UNCHANGED <<store, w>>
        \/ /\ out \in {"ok", "NoBody", "ServerErr"}
           /\ tasks' = Finish(t, Result(<<>>, Nil))
           /\ store' = Serve(req, tk.batch.Region, store, out).store
           /\ w' = [w EXCEPT !.sent = IF out = "ok" THEN @ \cup {t} ELSE @]
           /\ UNCHANGED splits
    /\ UNCHANGED <<op, pc, ret, ctxs, frames>>

\* BatchDeleteRange: one turn of the collector's loop of round f
BatchDeleteRangeCollect(f) ==
    LET fr == frames[f]
        e == Head(fr.ch).Error
    IN
    /\ pc = "wait"
    /\ fr.kind = "BatchDeleteRange"
    /\ fr.pc = "collect"
    /\ fr.i < Receives(fr)
    /\ fr.ch # <<>>
    /\ frames' = Receive(f, <<>>)
    /\ IF e # Nil
       THEN /\ ctxs' = CancelGroup(ctxs, fr)
            /\ w' = [w EXCEPT !.err = CatchFirstError(@, e)]
       ELSE UNCHANGED <<ctxs, w>>
    /\ UNCHANGED <<op, pc, ret, splits, store, tasks>>

\* BatchDeleteRange: the round f is over, the outer loop goes on
BatchDeleteRangeRound(f) ==
    LET fr == frames[f]
    IN
    /\ pc = "wait"
    /\ fr.kind = "BatchDeleteRange"
    /\ fr.pc = "collect"
    /\ fr.i >= Receives(fr)
    /\ BatchDeleteRangeLoop(w, [frames EXCEPT ![f].pc = "returned"])
    /\ UNCHANGED <<op, splits, store>>

----------------------------------------------------------------------------
\* Inputs.

RECURSIVE SeqsUpTo(_, _)
SeqsUpTo(S, n) ==
    IF n = 0 THEN {<<>>}
    ELSE LET shorter == SeqsUpTo(S, n - 1)
         IN shorter \cup {Append(q, x) : q \in shorter, x \in S}

\* a key list: up to MaxLen runs of one key or of rawBatchPairCount equal keys
KeyLists == SeqsUpTo({[k |-> k, m |-> m] : k \in 1..MaxBatchKey, m \in {1, rawBatchPairCount}}, MaxLen)

\* the servers' data before the call: every key but the first holds a value
Store0 == [k \in KeySpace |-> IF k = 1 THEN NoValue ELSE [v |-> ValueOf(k), ttl |-> 0]]

InitCommon ==
    /\ pc = "call"
    /\ ret = NoRet
    /\ store = Store0
    /\ ctxs = [c \in {Root} |-> [parent |-> Root, cancelled |-> FALSE]]
    /\ frames = <<>>
    /\ tasks = <<>>
    /\ w = W0

BatchOps == {[name |-> nm, keys |-> ks] : nm \in {"BatchGet", "BatchDelete"}, ks \in KeyLists}

InitBatch ==
    /\ op \in BatchOps
    /\ splits \in BatchLayouts
    /\ InitCommon

\* BatchPut's arguments: one-key runs, values of 1 byte (1), of rawBatchPutSize - 1
\* bytes (2) or empty (0), and no TTLs or one per key
PutKeyLists == SeqsUpTo({[k |-> k, m |-> 1] : k \in 1..MaxBatchKey}, MaxLen)
PutValueLists == SeqsUpTo(0..2, MaxLen)
PutArgs ==
    {[name |-> "BatchPut", keys |-> ks, values |-> vs, ttls |-> ts] :
        ks \in PutKeyLists, vs \in PutValueLists, ts \in {<<>>, <<7>>, <<7, 8>>}}

BatchPutOps == {a \in PutArgs : Len(a.values) <= Len(a.keys) /\ Len(a.ttls) <= Len(a.keys)}

InitBatchPut ==
    /\ op \in BatchPutOps
    /\ splits \in BatchLayouts
    /\ InitCommon

NextBatchPut ==
    \/ BatchPut
    \/ \E t \in DOMAIN tasks : doBatchPut(t)
    \/ \E t \in DOMAIN tasks : Deliver(t)
    \/ \E f \in DOMAIN frames : sendBatchPutCollect(f)
    \/ \E f \in DOMAIN frames : sendBatchPutReturn(f)

SpecBatchPut == InitBatchPut /\ [][NextBatchPut]_vars

NextBatch ==
    \/ BatchGet
    \/ BatchDelete
    \/ \E t \in DOMAIN tasks : doBatchReq(t)
    \/ \E t \in DOMAIN tasks : Deliver(t)
    \/ \E f \in DOMAIN frames : sendBatchReqCollect(f)
    \/ \E f \in DOMAIN frames : sendBatchReqReturn(f)

SpecBatch == InitBatch /\ [][NextBatch]_vars

\* the data the servers may hold at the call
Stores ==
    {[k \in KeySpace |-> IF k \in present
                         THEN [v |-> ValueOf(k), ttl |-> IF k = 2 THEN 5 ELSE 0]
                         ELSE NoValue] : present \in SUBSET KeySpace}

InitSeq ==
    /\ pc = "call"
    /\ ret = NoRet
    /\ splits \in Layouts
    /\ store \in Stores
    /\ ctxs = [c \in {Root} |-> [parent |-> Root, cancelled |-> FALSE]]
    /\ frames = <<>>
    /\ tasks = <<>>
    /\ w = W0

\* calls of the operations that go through sendReq
SingleOps ==
    [name : {"Get", "GetKeyTTL"}, key : KeySpace]
    \cup [name : {"Put", "Delete"}, key : KeySpace, value : 0..2, atomic : BOOLEAN]
    \cup [name : {"PutWithTTL"}, key : KeySpace, value : 0..2, ttl : {0, 7}, atomic : BOOLEAN]
    \cup [name : {"CompareAndSwap"}, key : KeySpace, prev : {Absent, 1, ValueOf(1)},
           value : 0..2, atomic : BOOLEAN]

ScanLimits == {0, 1, 2, 3, MaxRawKVScanLimit, MaxRawKVScanLimit + 1}

ScanOps ==
    [name : {"Scan", "ReverseScan"}, startKey : 0..(MaxKey + 1), endKey : 0..(MaxKey + 1),
     limit : ScanLimits]

InitSendReq ==
    /\ op \in SingleOps \cup ScanOps
    /\ InitSeq

NextSendReq ==
    \/ sendReq
    \/ Get
    \/ PutWithTTL
    \/ GetKeyTTL
    \/ Delete
    \/ CompareAndSwap
    \/ Scan
    \/ ReverseScan

SpecSendReq == InitSendReq /\ [][NextSendReq]_vars

DeleteRangeOps ==
    [name : {"DeleteRange"}, startKey : 0..(MaxKey + 1), endKey : 0..(MaxKey + 1)]

InitDeleteRange ==
    /\ op \in DeleteRangeOps
    /\ InitSeq

NextDeleteRange ==
    \/ sendDeleteRangeReq
    \/ DeleteRange

SpecDeleteRange == InitDeleteRange /\ [][NextDeleteRange]_vars

BatchSizes == -1..MaxBatchSize

BatchDeleteRangeOps ==
    [name : {"BatchDeleteRange"}, startKey : 0..(MaxBatchKey + 1),
     endKey : 0..(MaxBatchKey + 1), batchSize : BatchSizes]

InitBatchDeleteRange ==
    /\ op \in BatchDeleteRangeOps
    /\ pc = "call"
    /\ ret = NoRet
    /\ splits \in BatchLayouts
    /\ store \in {s \in Stores : \A k \in KeySpace : s[k].v # 0}
    /\ ctxs = [c \in {Root} |-> [parent |-> Root, cancelled |-> FALSE]]
    /\ frames = <<>>
    /\ tasks = <<>>
    /\ w = W0

NextBatchDeleteRange ==
    \/ BatchDeleteRange
    \/ \E t \in DOMAIN tasks : doBatchDeleteRangeReq(t)
    \/ \E t \in DOMAIN tasks : Deliver(t)
    \/ \E f \in DOMAIN frames : BatchDeleteRangeCollect(f)
    \/ \E f \in DOMAIN frames : BatchDeleteRangeRound(f)

SpecBatchDeleteRange == InitBatchDeleteRange /\ [][NextBatchDeleteRange]_vars

\* the three fan-out executors together
InitFanOut ==
    \/ InitBatch
    \/ InitBatchPut
    \/ InitBatchDeleteRange

NextFanOut ==
    \/ BatchGet
    \/ BatchDelete
    \/ BatchPut
    \/ BatchDeleteRange
    \/ \E t \in DOMAIN tasks : doBatchReq(t)
    \/ \E t \in DOMAIN tasks : doBatchPut(t)
    \/ \E t \in DOMAIN tasks : doBatchDeleteRangeReq(t)
    \/ \E t \in DOMAIN tasks : Deliver(t)
    \/ \E f \in DOMAIN frames : sendBatchReqCollect(f)
    \/ \E f \in DOMAIN frames : sendBatchReqReturn(f)
    \/ \E f \in DOMAIN frames : sendBatchPutCollect(f)
    \/ \E f \in DOMAIN frames : sendBatchPutReturn(f)
    \/ \E f \in DOMAIN frames : BatchDeleteRangeCollect(f)
    \/ \E f \in DOMAIN frames : BatchDeleteRangeRound(f)

SpecFanOut == InitFanOut /\ [][NextFanOut]_vars

\* every public operation, called on a client whose transport answers every
\* attempt with a region-error
AllOps ==
    SingleOps \cup ScanOps \cup DeleteRangeOps \cup BatchOps \cup BatchPutOps
    \cup BatchDeleteRangeOps

InitRegionErr ==
    /\ \E o \in AllOps : op = MockTransport(o)
    /\ splits \in BatchLayouts
    /\ InitCommon

NextRegionErr ==
    \/ sendReq
    \/ Get
    \/ PutWithTTL
    \/ GetKeyTTL
    \/ Delete
    \/ CompareAndSwap
    \/ Scan
    \/ ReverseScan
    \/ sendDeleteRangeReq
    \/ DeleteRange
    \/ NextFanOut

SpecRegionErr == InitRegionErr /\ [][NextRegionErr]_vars

----------------------------------------------------------------------------
\* C1: a successful BatchGet returns one value per input key, in the order of
\* the keys: the value the servers hold for that key, absent (0) when they
\* returned no pair for it; equal keys get equal values.
C1_BatchGetAssociation ==
    (op.name = "BatchGet" /\ ret.status = "returned" /\ ret.err = Nil) =>
        /\ Len(ret.values) = Len(op.keys)
        /\ \A i \in 1..Len(op.keys) :
              /\ ret.values[i].m = op.keys[i].m
              /\ ret.values[i].v = store[op.keys[i].k].v
        /\ \A i, j \in 1..Len(op.keys) :
              op.keys[i].k = op.keys[j].k => ret.values[i].v = ret.values[j].v

\* a successful BatchGet of more than rawBatchPairCount keys, cut into sub-batches,
\* one of them re-planned after a region-error, with a stored and a missing key
C1_Witness ==
    /\ op.name = "BatchGet"
    /\ ret.status = "returned"
    /\ ret.err = Nil
    /\ Count(op.keys) > rawBatchPairCount
    /\ frames[<<>>].n > 1
    /\ Cardinality(DOMAIN frames) > 1
    /\ \E i, j \in 1..Len(op.keys) : ret.values[i].v = 0 /\ ret.values[j].v # 0

\* the location sendReq resolves for its key under the current routing cache
Resolved == IF w.reverse THEN LocateEndKey(splits, w.key) ELSE LocateKey(splits, w.key)

\* C2: when the first attempt of a sendReq call is answered with a region-error and
\* the second with a success, sendReq returns that answer without error, having
\* resolved the location again and charged a backoff; and whatever the answers,
\* what sendReq returns without error is never a region-error, and the errors it
\* returns are lookup, transport or budget errors.
C2_RegionErrorTransparency ==
    (pc \in {"resume", "done"} /\ w.locates > 0) =>
        /\ (Len(w.answers) >= 2 /\ w.answers[1] = "RegionErr"
                /\ w.answers[2] \in {"ok", "NoBody", "ServerErr"}) =>
               /\ Len(w.answers) = 2
               /\ w.out.err = Nil
               /\ w.out.resp.Body = (w.answers[2] # "NoBody")
               /\ (w.out.resp.Error # "") = (w.answers[2] = "ServerErr")
               /\ w.locates = 2
               /\ w.out.loc = Resolved
               /\ w.bo.totalSleep >= SleepMs
               /\ (pc = "done" /\ w.answers[2] = "ok" /\ op.name \notin {"Scan", "ReverseScan"}) =>
                      ret.err = Nil
               /\ (pc = "done" /\ w.answers[2] = "ok" /\ op.name = "Get") =>
                      ret.value = store[op.key].v
        /\ w.out.err = Nil => w.answers[Len(w.answers)] \in {"ok", "NoBody", "ServerErr"}
        /\ w.out.err.kind \in {"nil", "LocateErr", "SendErr", "Exhausted"}
        /\ w.out.err.kind = "Exhausted" => w.answers[Len(w.answers)] = "RegionErr"

C2_Witness ==
    /\ pc = "done" /\ op.name = "Get"
    /\ w.answers = <<"RegionErr", "ok">>
    /\ w.out.loc.Region # <<0, 0>>
    /\ ret.err = Nil /\ ret.value # 0

\* C6: with region servers that return only pairs of their own range, in scan
\* order and at most the requested limit, the keys Scan accumulates are strictly
\* increasing and those of ReverseScan strictly decreasing across the hops, the
\* values stay in lockstep with the keys, every hop asks for the limit minus the
\* pairs accumulated before it, the pairs never outnumber the limit, and a
\* successful return hands back exactly the accumulated keys and values.
C6_ScanOrderAndLimit ==
    op.name \in {"Scan", "ReverseScan"} =>
        /\ \A i, j \in 1..Len(w.keys) :
              i < j => IF op.name = "Scan" THEN w.keys[i] < w.keys[j]
                       ELSE w.keys[i] > w.keys[j]
        /\ Len(w.values) = Len(w.keys)
        /\ \A i \in 1..Len(w.keys) : w.values[i] = store[w.keys[i]].v /\ w.values[i] # 0
        /\ \A h \in 1..Len(w.hops) :
              /\ w.hops[h].req.Limit = op.limit - w.hops[h].before
              /\ w.hops[h].got <= w.hops[h].req.Limit
        /\ pc = "sendReq" => w.req.Limit = op.limit - Len(w.keys)
        /\ op.limit >= 0 => Len(w.keys) <= op.limit
        /\ (ret.status = "returned" /\ ret.err = Nil) =>
               ret.keys = w.keys /\ ret.values = w.values

C6_Witness ==
    /\ op.name = "Scan" /\ ret.status = "returned" /\ ret.err = Nil
    /\ Len(w.hops) >= 2
    /\ w.hops[1].got >= 1 /\ w.hops[2].got >= 1
    /\ w.hops[2].req.Limit < op.limit
    /\ Len(ret.keys) = op.limit
    /\ \E k \in KeySpace : store[k].v # 0 /\ k >= op.startKey /\ k < op.endKey
                           /\ \A i \in 1..Len(ret.keys) : ret.keys[i] # k

\* C7: for start < end, the successful delete-range requests of DeleteRange have
\* non-empty ranges that begin at start, each beginning where the one before
\* ended, none ending after end; start moves only past a successful request, a
\* retry after a region-error keeps it; nil is returned only once the ranges have
\* reached end.
C7_DeleteRangeWalk ==
    (op.name = "DeleteRange" /\ op.startKey < op.endKey /\ pc # "call") =>
        LET n == Len(w.hops)
            pending == pc = "resume" /\ RespErr(w.out) = Nil
        IN
        /\ n >= 1 => w.hops[1].req.StartKey = op.startKey
        /\ \A h \in 1..n :
              /\ w.hops[h].req.StartKey < w.hops[h].req.EndKey
              /\ w.hops[h].req.EndKey <= op.endKey
              /\ h < n => w.hops[h + 1].req.StartKey = w.hops[h].req.EndKey
        /\ w.startKey = IF n = 0 THEN op.startKey
                        ELSE IF pending THEN w.hops[n].req.StartKey
                        ELSE w.hops[n].req.EndKey
        /\ pc = "sendDeleteRangeReq" => w.key = w.startKey
        /\ (ret.status = "returned" /\ ret.err = Nil) =>
               /\ n >= 1
               /\ w.hops[n].req.EndKey = op.endKey
               /\ w.startKey = op.endKey

C7_Witness ==
    /\ op.name = "DeleteRange" /\ op.startKey < op.endKey
    /\ ret.status = "returned" /\ ret.err = Nil
    /\ Len(w.hops) >= 2
    /\ w.slept > 0
    /\ w.hops[Len(w.hops)].region[2] # op.endKey
    /\ \E k \in KeySpace : k >= op.endKey /\ store[k].v # 0

\* C8: once the walk of BatchDeleteRange is over, what it returns is the first
\* error its collectors captured: it does not return success after a task failed.
C8_BatchDeleteRangeReturnsFirstError ==
    (op.name = "BatchDeleteRange" /\ ret.status = "returned" /\ w.startKey = op.endKey) =>
        ret.err = w.err

\* C9: in every round of BatchDeleteRange the tasks launched are the regions
\* LocateKey returned in that round, one task each and in that order: at most
\* batchSize of them, none for a zero-valued location, none for a location of an
\* earlier round.
C9_BatchDeleteRangeRounds ==
    op.name = "BatchDeleteRange" =>
        \A r \in 1..w.round :
            /\ frames[<<r>>].n = Len(w.located[r])
            /\ frames[<<r>>].n <= op.batchSize
            /\ \A j \in 1..frames[<<r>>].n :
                  /\ tasks[<<r, j>>].batch # ZeroLocation
                  /\ j <= Len(w.located[r]) =>
                        tasks[<<r, j>>].batch.Region = w.located[r][j].Region

\* C10: for start < end and batchSize >= 1, when BatchDeleteRange has returned
\* and every request addressed to a located region was answered with success,
\* every key of [start, end) lies in the range of a request sent to the key's
\* region.
C10_BatchDeleteRangeCoverage ==
    (/\ op.name = "BatchDeleteRange" /\ op.startKey < op.endKey /\ op.batchSize >= 1
     /\ ret.status = "returned" /\ w.startKey = op.endKey
     /\ \A t \in DOMAIN tasks : tasks[t].batch.Region # ZeroRegion => t \in w.sent) =>
        \A k \in KeySpace :
            (op.startKey <= k /\ k < op.endKey) =>
                \E t \in w.sent :
                    /\ InRegion(k, tasks[t].batch.Region)
                    /\ tasks[t].batch.StartKey <= k
                    /\ k < tasks[t].batch.EndKey

\* the fan-outs of sendBatchReq and sendBatchPut, and the tasks of a fan-out
Executors == {f \in DOMAIN frames : frames[f].kind \in {"sendBatchReq", "sendBatchPut"}}
TasksOf(f) == {t \in DOMAIN tasks : Front(t) = f}

\* C3: on a client whose transport answers every attempt with a region-error, a
\* public operation that made an attempt and met no lookup error returns a
\* retry-exhausted error, and no budget sleeps past the raw-operation budget
\* plus its last sleep.
C3_BudgetExhaustion ==
    Mocked =>
        /\ w.bo.totalSleep < rawkvMaxBackoff + SleepMs
        /\ \A t \in DOMAIN tasks : tasks[t].bo.totalSleep < rawkvMaxBackoff + SleepMs
        /\ (/\ ret.status = "returned"
            /\ w.answers # <<>> \/ DOMAIN tasks # {}
            /\ ret.err.kind # "LocateErr") => ret.err.kind = "Exhausted"

\* C4: in sendBatchReq and sendBatchPut, once the collector has caught an error
\* the group context is cancelled, so every task of the fan-out finds its budget
\* cancelled; the caller's context is never cancelled by it (the caller of the
\* operation's never, a calling task's only by that task when it leaves); and the
\* error caught, which is the one returned, is that of the first task that failed
\* in completion order.
C4_FirstErrorCancellation ==
    /\ ~ctxs[Root].cancelled
    /\ \A f \in Executors :
        LET fr == frames[f]
        IN
        /\ fr.firstError # Nil =>
              /\ ctxs[GroupCtx(f)].cancelled
              /\ \A t \in TasksOf(f) : BackoffErr(ctxs, tasks[t].bo) = "Cancelled"
              /\ fr.firstError = fr.firstFailed
        /\ f # <<>> => (ctxs[TaskCtx(f)].cancelled => tasks[f].pc = "exit")
        /\ (fr.pc = "returned" /\ f # <<>> /\ tasks[f].pc = "send") =>
              tasks[f].res.Error = fr.firstFailed
        /\ (fr.pc = "returned" /\ f = <<>>) => ret.err = fr.firstFailed

C4_Witness ==
    /\ <<>> \in Executors
    /\ frames[<<>>].pc = "returned"
    /\ frames[<<>>].n >= 2
    /\ ret.err.kind = "SendErr"
    /\ \E f \in Executors : f # <<>> /\ frames[f].firstError.kind = "Cancelled"
                            /\ frames[f].pc = "returned"

C11_ForkedBudgetsReleased ==
    /\ \A t \in DOMAIN tasks : tasks[t].pc = "exit" => ctxs[TaskCtx(t)].cancelled
    /\ \A f \in DOMAIN frames : frames[f].pc = "returned" => ctxs[GroupCtx(f)].cancelled

\* the request task t hands to the transport (doBatchReq, doBatchPut,
\* doBatchDeleteRangeReq): all three set the execution-duration hint
TaskRequest(t) ==
    LET cmdType == frames[Front(t)].cmdType
    IN [NewRequest(cmdType) EXCEPT
            !.StartKey = IF cmdType = "RawDeleteRange" THEN tasks[t].batch.StartKey ELSE 0,
            !.EndKey = IF cmdType = "RawDeleteRange" THEN tasks[t].batch.EndKey ELSE 0,
            !.MaxExecutionDurationMs = MaxWriteExecutionTime]

WriteCmds ==
    {"RawPut", "RawDelete", "RawBatchPut", "RawBatchDelete", "RawDeleteRange",
     "RawCompareAndSwap"}

\* C12: every write request handed to the transport, by the sequential
\* dispatchers or by a sub-batch task, carries the execution-duration hint set to
\* the write-timeout budget.
C12_WriteRequestsCarryHint ==
    /\ (w.answers # <<>> /\ w.req.cmd \in WriteCmds) =>
           w.req.MaxExecutionDurationMs = MaxWriteExecutionTime
    /\ \A t \in DOMAIN tasks :
           TaskRequest(t).cmd \in WriteCmds =>
               TaskRequest(t).MaxExecutionDurationMs = MaxWriteExecutionTime

\* the write operations that take values, together
InitWrites ==
    \/ InitSendReq
    \/ InitBatchPut

NextWrites ==
    \/ NextSendReq
    \/ NextBatchPut

SpecWrites == InitWrites /\ [][NextWrites]_vars

\* a call with an empty value among its arguments (the value 0 is the empty one)
EmptyValueCall ==
    \/ op.name \in {"Put", "PutWithTTL", "CompareAndSwap"} /\ op.value = 0
    \/ op.name = "BatchPut" /\ \E i \in 1..Len(op.values) : op.values[i] = 0

\* C13: Put, PutWithTTL and CompareAndSwap called with an empty value, and BatchPut
\* called with an empty value among its values, return an argument error, without
\* a routing lookup, a request or a fan-out having been made for the call.
C13_EmptyValueRejected ==
    EmptyValueCall =>
        /\ pc \in {"call", "done"}
        /\ pc = "done" => ret.status = "returned" /\ ret.err.kind = "Arg"
        /\ w.locates = 0 /\ w.answers = <<>>
        /\ DOMAIN frames = {} /\ DOMAIN tasks = {}

C13_Witness ==
    /\ op.name = "BatchPut"
    /\ Len(op.keys) = 2 /\ Len(op.values) = 2 /\ Len(op.ttls) = 2
    /\ op.values[1] # 0 /\ op.values[2] = 0
    /\ pc = "done" /\ ret.err.kind = "Arg"

\* C14: Scan and ReverseScan called with a limit above 10240 return the
\* scan-limit-exceeded error with no pairs, without a routing lookup or a request;
\* called with a limit of at most 10240 they never return that error.
C14_ScanLimitCap ==
    op.name \in {"Scan", "ReverseScan"} =>
        /\ op.limit > 10240 =>
              /\ pc \in {"call", "done"}
              /\ pc = "done" =>
                    /\ ret.status = "returned"
                    /\ ret.err.kind = "MaxScanLimitExceeded"
                    /\ ret.keys = <<>> /\ ret.values = <<>>
              /\ w.locates = 0 /\ w.answers = <<>>
        /\ (op.limit <= 10240 /\ ret.status = "returned") =>
              ret.err.kind # "MaxScanLimitExceeded"

C14_Witness ==
    /\ op.name = "ReverseScan" /\ op.limit = 10241
    /\ \E k \in KeySpace : k >= op.endKey /\ k < op.startKey /\ store[k].v # 0
    /\ pc = "done" /\ ret.err.kind = "MaxScanLimitExceeded"

\* C15: CompareAndSwap on a client not in atomic mode returns an argument error
\* without a lookup or a request.  In atomic mode its request expects
\* non-existence exactly when prev is absent and carries prev otherwise; and when
\* it was answered, with cur the value the store held (0: none), the call reports
\* success exactly when the store's condition held (cur absent for an absent prev,
\* cur = prev otherwise), returns cur or absent as the previous value, and the key
\* then holds the new value after a swap and cur otherwise.
C15_CompareAndSwap ==
    op.name = "CompareAndSwap" =>
        /\ ~op.atomic =>
              /\ pc \in {"call", "done"}
              /\ pc = "done" => ret.err.kind = "Arg" /\ ~ret.succeed /\ ret.prev = Absent
              /\ w.locates = 0 /\ w.answers = <<>>
        /\ w.answers # <<>> =>
              /\ w.req.cmd = "RawCompareAndSwap"
              /\ w.req.Key = op.key /\ w.req.Value = op.value
              /\ w.req.PreviousNotExist = (op.prev = Absent)
              /\ op.prev # Absent => w.req.PreviousValue = op.prev
        /\ (pc = "done" /\ w.answers # <<>> /\ w.answers[Len(w.answers)] = "ok") =>
              LET cur == w.out.resp.PreviousValue
              IN /\ ret.err = Nil
                 /\ ret.succeed = (IF op.prev = Absent THEN cur = 0 ELSE cur = op.prev)
                 /\ ret.prev = (IF cur = 0 THEN Absent ELSE cur)
                 /\ store[op.key].v = (IF ret.succeed THEN op.value ELSE cur)

C15_Witness ==
    /\ op.name = "CompareAndSwap" /\ op.atomic /\ op.prev = ValueOf(1)
    /\ pc = "done" /\ ret.err = Nil
    /\ ret.succeed /\ ret.prev = ValueOf(1)
    /\ store[op.key].v = op.value
    /\ w.slept > 0

\* C16: a response without region-error and without inner body makes the
\* operation fail with the body-missing error: a sequential operation answered so
\* returns that error, a sub-batch task answered so delivers an error, and no
\* operation panics.
C16_BodyMissingIsFatal ==
    /\ ret.status # "panic"
    /\ (pc = "done" /\ w.answers # <<>> /\ w.answers[Len(w.answers)] = "NoBody") =>
           ret.err.kind = "BodyMissing"
    /\ \A t \in DOMAIN tasks :
           (tasks[t].pc = "send" /\ ~tasks[t].res.Body) => tasks[t].res.Error # Nil

\* the caller's next call after Delete(K) returned success: Get(K) or GetKeyTTL(K)
Readback ==
    /\ pc = "done"
    /\ op.name = "Delete"
    /\ ret.status = "returned" /\ ret.err = Nil
    /\ \E name \in {"Get", "GetKeyTTL"} :
          op' = [name |-> name, key |-> op.key, after |-> "Delete"]
    /\ pc' = "call"
    /\ ret' = NoRet
    /\ w' = W0
    /\ UNCHANGED <<splits, store, ctxs, frames, tasks>>

InitReadback ==
    /\ op \in {o \in SingleOps : o.name = "Delete"}
    /\ InitSeq

NextReadback ==
    \/ sendReq
    \/ Delete
    \/ Readback
    \/ Get
    \/ GetKeyTTL

SpecReadback == InitReadback /\ [][NextReadback]_vars

\* C17: a Get(K) or GetKeyTTL(K) made after Delete(K) returned success, with no
\* write to K in between, finds no value: once it is answered, after any
\* region-errors and retries, it returns absent and no error.
C17_MissingKeyReadback ==
    (/\ "after" \in DOMAIN op /\ pc = "done"
     /\ w.answers # <<>> /\ w.answers[Len(w.answers)] = "ok") =>
        /\ store[op.key] = NoValue
        /\ ret.err = Nil
        /\ op.name = "Get" => ret.value = 0
        /\ op.name = "GetKeyTTL" => ~ret.found

C17_Witness ==
    /\ "after" \in DOMAIN op /\ op.name = "GetKeyTTL"
    /\ pc = "done" /\ ret.err = Nil /\ ~ret.found
    /\ w.slept > 0 /\ Len(w.answers) = 2
    /\ \E k \in KeySpace : store[k] # NoValue

----------------------------------------------------------------------------
\* C18

\* the payload of a batch-put batch: the bytes of its keys and values
RECURSIVE Payload(_, _)
Payload(keys, values) ==
    IF keys = <<>> \/ values = <<>> THEN 0
    ELSE KeyLen(Head(keys).k) + ByteLen(Head(values)) + Payload(Tail(keys), Tail(values))

SingleRegion(batch) ==
    /\ batch.RegionID # ZeroRegion
    /\ \A i \in 1..Len(batch.Keys) : InRegion(batch.Keys[i].k, batch.RegionID)

\* C18: every sub-batch handed to the fan-out executor targets a single region
\* and respects its cap: a batch-get / batch-delete sub-batch holds at most
\* rawBatchPairCount (512) keys; a batch-put sub-batch has a key + value payload
\* of at most rawBatchPutSize (16 KiB) and as many values and ttls as keys.
C18_SubBatchBounds ==
    \A t \in DOMAIN tasks :
        /\ frames[Front(t)].kind = "sendBatchReq" =>
             /\ SingleRegion(tasks[t].batch)
             /\ Count(tasks[t].batch.Keys) <= rawBatchPairCount
        /\ frames[Front(t)].kind = "sendBatchPut" =>
             /\ SingleRegion(tasks[t].batch)
             /\ Len(tasks[t].batch.Keys) = Len(tasks[t].batch.Values)
             /\ Len(tasks[t].batch.Keys) = Len(tasks[t].batch.TTLs)
             /\ Payload(tasks[t].batch.Keys, tasks[t].batch.Values) <= rawBatchPutSize

----------------------------------------------------------------------------
\* C19

EmptyRangeCall ==
    \/ op.name = "Scan" /\ op.endKey # 0 /\ op.startKey >= op.endKey
    \/ op.name = "ReverseScan" /\ op.startKey <= op.endKey

\* C19: Scan(start, end, limit) with a non-empty end and start >= end, and
\* ReverseScan(start, end, limit) with start <= end (so with an empty start),
\* make no routing lookup and send no request, and return no pairs (with no
\* error when the limit is within the cap).
C19_EmptyRangeNoRPC ==
    EmptyRangeCall =>
        /\ pc \in {"call", "done"}
        /\ w.locates = 0 /\ w.answers = <<>>
        /\ pc = "done" =>
              /\ ret.status = "returned"
              /\ ret.keys = <<>> /\ ret.values = <<>>
              /\ op.limit <= MaxRawKVScanLimit => ret.err = Nil

\* Scan("a", "a", 1) over a stored key "a" has returned
C19_Witness ==
    /\ op.name = "Scan" /\ op.startKey = 1 /\ op.endKey = 1 /\ op.limit = 1
    /\ store[1].v # 0
    /\ pc = "done" /\ ret.status = "returned" /\ ret.keys = <<>>

----------------------------------------------------------------------------
\* C20

\* the (key, value, ttl) triples of BatchPut's arguments (no ttls: ttl 0)
InputPairs ==
    {<<op.keys[i].k, op.values[i], IF op.ttls = <<>> THEN 0 ELSE op.ttls[i]>> :
        i \in 1..Len(op.keys)}

\* the (key, value, ttl) triples of a batch-put batch
BatchPairs(batch) ==
    {<<batch.Keys[i].k, batch.Values[i], batch.TTLs[i]>> : i \in 1..Len(batch.Keys)}

RECURSIVE SumLen(_)
SumLen(T) ==
    IF T = {} THEN 0
    ELSE LET t == CHOOSE x \in T : TRUE
         IN Len(tasks[t].batch.Keys) + SumLen(T \ {t})

\* the triples carried by a batch-put request that was answered with neither a
\* region-error nor an error
Carried ==
    UNION {BatchPairs(tasks[t].batch) :
              t \in {x \in DOMAIN tasks : frames[Front(x)].kind = "sendBatchPut" /\ tasks[x].answered}}

\* the batch-put fan-outs entered by a batch-step after a region-error
Replanned == {f \in DOMAIN frames : f # <<>> /\ frames[f].kind = "sendBatchPut"}

\* the re-planned fan-out of a batch-step runs on exactly the batch's pairs
ReplansWholeBatch ==
    \A f \in Replanned :
        /\ UNION {BatchPairs(tasks[t].batch) : t \in TasksOf(f)} = BatchPairs(tasks[f].batch)
        /\ SumLen(TasksOf(f)) = Len(tasks[f].batch.Keys)

\* the outcome of the re-planned fan-out is the outcome of the batch-step
ReplanOutcomeIsTaskOutcome ==
    \A f \in Replanned :
        /\ frames[f].pc = "collect" => tasks[f].pc = "wait"
        /\ (frames[f].pc = "returned" /\ tasks[f].pc = "send") =>
              tasks[f].res.Error = frames[f].firstError

\* a BatchPut that returned success carried every input triple
SuccessCarriedEveryPair ==
    (op.name = "BatchPut" /\ pc = "done" /\ ret.status = "returned" /\ ret.err = Nil) =>
        InputPairs \subseteq Carried

\* C20: a batch-put batch-step that met a region-error re-enters the planner and
\* executor on exactly its batch's keys with their values and ttls, and the
\* outcome of that fan-out is the task's outcome; and whenever BatchPut returns
\* success, every input (key, value, ttl) was carried by a request answered with
\* neither a region-error nor an error.
C20_ReplanKeepsEveryPair ==
    /\ ReplansWholeBatch
    /\ ReplanOutcomeIsTaskOutcome
    /\ SuccessCarriedEveryPair

----------------------------------------------------------------------------
\* C21

\* the smaller of two end keys, the empty key (0) meaning unbounded
EndMin(a, b) == IF a = 0 THEN b ELSE IF b = 0 THEN a ELSE IF a < b THEN a ELSE b

\* C21: every delete-range request sent by DeleteRange starts inside the region
\* it is addressed to and ends at min(region end, requested end), an empty end
\* meaning unbounded; and a DeleteRange with an empty end that returned success
\* has sent a request to every region up to the last one (the one with no end).
C21_RegionScopedDeleteRange ==
    op.name = "DeleteRange" =>
        LET n == Len(w.hops)
        IN
        /\ \A h \in 1..n :
              /\ InRegion(w.hops[h].req.StartKey, w.hops[h].region)
              /\ w.hops[h].req.EndKey = EndMin(w.hops[h].region[2], op.endKey)
        /\ (pc = "resume" /\ w.out.err = Nil) =>
               w.req.EndKey = EndMin(w.out.loc.EndKey, op.endKey)
        /\ (op.endKey = 0 /\ ret.status = "returned" /\ ret.err = Nil) =>
               /\ n >= 1
               /\ w.hops[n].region[2] = 0

----------------------------------------------------------------------------
\* C22

\* the operations that retry sequentially, through sendReq or sendDeleteRangeReq
SequentialOps ==
    {"Get", "Put", "PutWithTTL", "GetKeyTTL", "Delete", "CompareAndSwap",
     "Scan", "ReverseScan", "DeleteRange"}

\* C22: the backoff sleep charged along the sequential retries of one public
\* operation call, summed over all its hops, never exceeds the raw-operation
\* budget rawkvMaxBackoff (20000 ms).
C22_PerOperationSleepCap ==
    op.name \in SequentialOps => w.slept <= rawkvMaxBackoff

----------------------------------------------------------------------------
\* C23

\* the most regions a layout has
MaxRegions == Cardinality(2..MaxBatchKey) + 1

\* C23: BatchDeleteRange with start # end, for every batchSize (0 and negative
\* ones too), does not crash, moves its start key in every outer iteration (each
\* round looks up at least one region) and so returns after at most as many
\* rounds as there are regions.
C23_BatchDeleteRangeTerminates ==
    (op.name = "BatchDeleteRange" /\ op.startKey # op.endKey) =>
        /\ ret.status # "panic"
        /\ \A r \in 1..Len(w.located) : w.located[r] # <<>>
        /\ w.round <= MaxRegions

----------------------------------------------------------------------------
\* C24

\* calls of Scan and ReverseScan alone; the sequential code runs on, and every
\* lookup and request is answered
InitScan ==
    /\ op \in ScanOps
    /\ InitSeq

NextScan ==
    \/ sendReq
    \/ Scan
    \/ ReverseScan

SpecScan == InitScan /\ [][NextScan]_vars /\ WF_vars(NextScan)

\* the regions scanned so far are regions of one layout, the current one
FixedLayout ==
    \A h \in 1..Len(w.hops) :
        w.hops[h].region = LocateKey(splits, w.hops[h].region[1]).Region

\* the range bound of the call lies at or before the cursor k, in walk direction
BoundCrossed(k) ==
    IF op.name = "Scan" THEN op.endKey # 0 /\ k >= op.endKey ELSE k <= op.endKey

\* the cursor moves strictly in the walk direction at every hop, to the end
\* (Scan) or start (ReverseScan) of the region scanned; no region is scanned
\* twice; under one layout the regions scanned are adjacent, in walk order; the
\* hops are no more than the regions; a hop is made only below the limit and
\* before the bound; a successful return comes with the limit reached, the
\* bound crossed or the empty region boundary
ScanWalk ==
    LET n == Len(w.hops)
        fwd == op.name = "Scan"
        next(h) == IF fwd THEN w.hops[h].region[2] ELSE w.hops[h].region[1]
    IN
    /\ n >= 1 => w.hops[1].req.StartKey = op.startKey /\ w.startKey = next(n)
    /\ \A h \in 1..n :
          /\ IF fwd THEN w.hops[h].req.StartKey >= w.hops[h].region[1]
                         /\ (next(h) = 0 \/ next(h) > w.hops[h].req.StartKey)
                    ELSE w.hops[h].req.StartKey > w.hops[h].region[1]
                         /\ next(h) < w.hops[h].req.StartKey
          /\ h < n => /\ next(h) # 0
                      /\ w.hops[h + 1].req.StartKey = next(h)
                      /\ w.hops[h].before + w.hops[h].got < op.limit
                      /\ ~BoundCrossed(next(h))
                      /\ FixedLayout =>
                            IF fwd THEN w.hops[h + 1].region[1] = w.hops[h].region[2]
                            ELSE w.hops[h + 1].region[2] = w.hops[h].region[1]
    /\ \A h, j \in 1..n : h # j => w.hops[h].region # w.hops[j].region
    /\ n <= MaxKey
    /\ pc = "sendReq" => Len(w.keys) < op.limit /\ ~BoundCrossed(w.startKey)
    /\ (ret.status = "returned" /\ ret.err = Nil) =>
           \/ Len(w.keys) >= op.limit
           \/ BoundCrossed(w.startKey)
           \/ n >= 1 /\ w.startKey = 0

\* C24: Scan and ReverseScan move the cursor strictly in the walk direction at
\* every hop (to the located region's end key, resp. start key), so each region
\* gets at most one successful scan request per call and, over a fixed layout,
\* the regions are visited in walk order; the walk ends when the limit is
\* reached, the bound is crossed or the region boundary is empty, also after a
\* region that returned no pair; and every call returns.
C24_ScanWalkerProgress == [](op.name \in {"Scan", "ReverseScan"} => ScanWalk) /\ <>(pc = "done")

\* a Scan over three regions of one layout, the first of which returned no pair
C24_Witness ==
    /\ op.name = "Scan" /\ ret.status = "returned" /\ ret.err = Nil
    /\ Len(w.hops) = 3 /\ FixedLayout
    /\ w.hops[1].got = 0 /\ w.hops[3].got >= 1
    /\ w.slept > 0

====
